---- MODULE Spec2Model ----
(***************************************************************************)
(* A model of rubiks.py: the 2x2 cube configuration (24 facelets), its six *)
(* permutation operators, the randomizer and the three searches.           *)
(*                                                                         *)
(* A Rubiks2x2 object is a record [faces, parent, parent_move].  Python's  *)
(* None is the empty tuple: an optional field holds <<>> or <<value>>.     *)
(* Objects are immutable, so a reference is modelled by the value itself.  *)
(***************************************************************************)
EXTENDS Integers, Sequences, FiniteSets, TLC

VARIABLES
    projection,   \* module global: the random row vector drawn once per run
    pc,           \* position of the program
    cube,         \* the configuration the driver / randomize holds
    n_steps,      \* randomize: steps still to take
    visited,      \* randomize, solve_pq: the set of configurations seen
    new_cube,     \* randomize: the candidate of the last iteration (<<>> or <<c>>)
    goal,         \* search: the goal configuration
    start,        \* search: the root copied from the input's faces
    q,            \* solve: FIFO queue; solve_pq: the heap list of the priority queue
    srcq,         \* solve_2way: start-side FIFO queue
    dstq,         \* solve_2way: goal-side FIFO queue
    goal_set,     \* solve_2way: dict of goal-side configurations
    counter,      \* Status.counter: ticks of the running search
    result,       \* what the call returned (<<>> is None, <<c>> a configuration)
    err           \* the exception that ended the program, "" if none

vars == <<projection, pc, cube, n_steps, visited, new_cube, goal, start,
          q, srcq, dstq, goal_set, counter, result, err>>

None == <<>>

NFacelets == 24

Idx == 0 .. (NFacelets - 1)

-----------------------------------------------------------------------------
(* Bounds of the model.                                                    *)

\* number of draws of the projection vector that are followed
MaxDraws == 2
\* longest known move sequence the driver applies before a search
MaxScramble == 3
\* longest known move sequence after which forward BFS (solve) is called
MaxSolveScramble == 2
\* longest known move sequence after which solve_2way is called
Max2wayScramble == 2
\* longest known move sequence after which solve_pq is called
MaxPQScramble == 3
\* most passes of the loop of solve_pq that are followed
MaxPQTicks == 8
\* longest sequence of transform calls in the transform walk
MaxDepth == 4
\* largest n_steps handed to randomize
MaxSteps == 5

-----------------------------------------------------------------------------
(* Transform table.                                                        *)

front_srcs == <<0,1,2,3,19,18,4,7,21,20,14,13>>
front_dsts == <<1,2,3,0,4,7,21,20,14,13,19,18>>
right_srcs == <<4,5,6,7,18,17,8,11,22,21,2,1>>
right_dsts == <<5,6,7,4,8,11,22,21,2,1,18,17>>
top_srcs   == <<16,17,18,19,4,5,8,9,12,13,0,1>>
top_dsts   == <<17,18,19,16,0,1,4,5,8,9,12,13>>

\* permutation_matrix reading the index lists as counted from one
permutation_matrix_one_based(N, srcs, dsts) ==
    [i \in 0 .. (N - 1) |-> [j \in 0 .. (N - 1) |->
        IF \E k \in DOMAIN srcs :
              (dsts[k] + 1) % N = i /\ (srcs[k] + 1) % N = j THEN 1
        ELSE IF i = j /\ (\E k \in DOMAIN srcs : (srcs[k] + 1) % N = i) THEN 0
        ELSE IF i = j THEN 1
        ELSE 0]]

\* permutation_matrix without the line M[srcs,srcs] = 0
permutation_matrix_keep_diagonal(N, srcs, dsts) ==
    [i \in 0 .. (N - 1) |-> [j \in 0 .. (N - 1) |->
        IF \E k \in DOMAIN srcs : dsts[k] = i /\ srcs[k] = j THEN 1
        ELSE IF i = j THEN 1
        ELSE 0]]

\* M = identity; M[srcs,srcs] = 0; M[dsts,srcs] = 1  (the later write wins)
permutation_matrix(N, srcs, dsts) ==
    [i \in 0 .. (N - 1) |-> [j \in 0 .. (N - 1) |->
        IF \E k \in DOMAIN srcs : dsts[k] = i /\ srcs[k] = j THEN 1
        ELSE IF i = j /\ (\E k \in DOMAIN srcs : srcs[k] = i) THEN 0
        ELSE IF i = j THEN 1
        ELSE 0]]

\* M.T forgotten: the matrix itself
Transpose_missing(M) == M

\* M.T
Transpose(M) == [i \in DOMAIN M |-> [j \in DOMAIN M |-> M[j][i]]]

front == permutation_matrix(NFacelets, front_srcs, front_dsts)
right == permutation_matrix(NFacelets, right_srcs, right_dsts)
top   == permutation_matrix(NFacelets, top_srcs, top_dsts)

\* the Python list [front, right, top, top.T, right.T, front.T]; Python index
\* t is position t + 1 of this tuple
transformations ==
    <<front, right, top, Transpose(top), Transpose(right), Transpose(front)>>

transform_names ==
    <<"front", "right", "top", "top inverse", "right inverse", "front inverse">>

\* the columns of each row that hold a non-zero entry (all other terms of the
\* matrix-vector product are zero)
NonZero == [t \in DOMAIN transformations |-> [i \in Idx |->
               {j \in Idx : transformations[t][i][j] # 0}]]

RECURSIVE RowDot(_, _, _)
RowDot(row, cols, v) ==
    IF cols = {} THEN 0
    ELSE LET j == CHOOSE x \in cols : TRUE
         IN  row[j] * v[j] + RowDot(row, cols \ {j}, v)

\* transformations[t] @ faces, t a position of the tuple
MatMul(t, faces) ==
    [i \in Idx |-> RowDot(transformations[t][i], NonZero[t][i], faces)]

\* Python list indexing: 0..len-1 from the front, -len..-1 from the back;
\* 0 stands for IndexError
ListIndex(num, len) ==
    IF num >= 0 /\ num < len THEN num + 1
    ELSE IF num < 0 /\ num >= 0 - len THEN num + len + 1
    ELSE 0

-----------------------------------------------------------------------------
(* Configuration.                                                          *)

\* the default faces of Rubiks2x2(): four facelets of colour k on face k
SolvedFaces == [i \in Idx |-> i \div 4]

Rubiks2x2(faces, parent, parent_move) ==
    [faces |-> faces, parent |-> parent, parent_move |-> parent_move]

TransformRaises(num) == ListIndex(num, Len(transformations)) = 0

\* transform without the matrix product: the child has the facelets of self
transform_without_product(self, num) == Rubiks2x2(self.faces, <<self>>, <<num>>)

\* Rubiks2x2.transform
transform(self, num) ==
    Rubiks2x2(MatMul(ListIndex(num, Len(transformations)), self.faces),
              <<self>>, <<num>>)

\* Rubiks2x2.dist
dist(self, other) == Cardinality({i \in Idx : self.faces[i] # other.faces[i]})

\* equality by object identity, as if __eq__ were not defined
Eq_identity(self, other) == self = other

\* Rubiks2x2.__eq__
Eq(self, other) == \A i \in Idx : self.faces[i] = other.faces[i]

\* sum of a[j] * b[j] for j = 0 .. n
RECURSIVE Dot(_, _, _)
Dot(a, b, n) ==
    IF n < 0 THEN 0 ELSE a[n] * b[n] + Dot(a, b, n - 1)

\* the factor of "projection = 100000 * np.random.randn(1, 24)"
ProjectionScale == 100000

\* the standard normal distribution at the 24 levels (k + 1/2) / 24, to the
\* nearest 1/1024: the values the draws of randn are taken from.  Multiples
\* of 1/1024 are doubles, and so are their products by 100000 and the sums
\* of __hash__, whatever the order of the additions: no rounding happens
NormalQuantiles ==
    <<
      -2086, -1571, -1288, -1080, -908, -759, -625, -501,
      -383, -270, -161, -53, 53, 161, 270, 383,
      501, 625, 759, 908, 1080, 1288, 1571, 2086
    >>

\* the multipliers that spread the quantiles over the 24 places of a draw
DrawStrides == <<5, 7, 11, 13, 17, 19, 23>>

\* np.random.randn(1, 24), draw number s, in 1024ths: the 24 quantiles in an
\* order of their own for each s
randn(s) ==
    LET a == DrawStrides[((s - 1) % Len(DrawStrides)) + 1]
    IN  [i \in Idx |-> NormalQuantiles[((i * a + 3 * s) % NFacelets) + 1]]

\* the values `projection` may have been drawn as, in 32nds: 100000 * z for
\* z = k / 1024 is 100000 * k / 32 thirty-seconds, a whole number
Projections ==
    { [i \in Idx |-> (ProjectionScale \div 32) * randn(s)[i]] :
        s \in 1 .. MaxDraws }

\* Python int() of a real given in 32nds: truncation toward zero
int(x) == IF x >= 0 THEN x \div 32 ELSE 0 - ((0 - x) \div 32)

\* a hash that also reads the provenance (parent_move)
Hash_with_parent_move(self) ==
    int(Dot(projection, self.faces, NFacelets - 1))
        + (IF self.parent_move = None THEN 0 ELSE self.parent_move[1] + 1)

\* Rubiks2x2.__hash__
Hash(self) == int(Dot(projection, self.faces, NFacelets - 1))

\* print_history: the number of steps it reports, walking back while
\* parent_move is not None
RECURSIVE print_history(_)
print_history(c) ==
    IF c.parent_move = None THEN 0 ELSE 1 + print_history(c.parent[1])

\* the moves print_history prints, oldest first
RECURSIVE Moves(_)
Moves(c) ==
    IF c.parent_move = None THEN <<>>
    ELSE Append(Moves(c.parent[1]), c.parent_move[1])

\* the root of an ancestry: the configuration whose parent is None
RECURSIVE Root(_)
Root(c) == IF c.parent = None THEN c ELSE Root(c.parent[1])

-----------------------------------------------------------------------------
(* Python set and dict.  An entry keeps the hash the key had on insertion; *)
(* a lookup compares hashes first and then calls __eq__.                   *)

\* membership by object identity, as if __eq__ were not defined
SetHas_identity(S, x) == \E e \in S : e.key = x

SetHas(S, x) ==
    LET h == Hash(x) IN \E e \in S : e.hash = h /\ Eq(e.key, x)

SetAdd(S, x) ==
    IF SetHas(S, x) THEN S ELSE S \cup {[hash |-> Hash(x), key |-> x]}

DictHas(D, k) ==
    LET h == Hash(k) IN \E e \in D : e.hash = h /\ Eq(e.key, k)

DictGet(D, k) ==
    LET h == Hash(k)
    IN  (CHOOSE e \in D : e.hash = h /\ Eq(e.key, k)).value

\* D.setdefault(k, v): an equal key keeps its entry and its value
DictSet_keep_first(D, k, v) ==
    LET h == Hash(k)
    IN  IF \E e \in D : e.hash = h /\ Eq(e.key, k)
        THEN D
        ELSE D \cup {[hash |-> h, key |-> k, value |-> v]}

\* D[k] = v: an equal key keeps its entry (and the old key object), only the
\* value is replaced
DictSet(D, k, v) ==
    LET h    == Hash(k)
        same == {e \in D : e.hash = h /\ Eq(e.key, k)}
    IN  IF same # {}
        THEN (D \ same) \cup {[e EXCEPT !.value = v] : e \in same}
        ELSE D \cup {[hash |-> h, key |-> k, value |-> v]}

-----------------------------------------------------------------------------
(* The program.                                                            *)

Init ==
    /\ projection \in Projections
    /\ pc = "main"
    /\ cube = Rubiks2x2(SolvedFaces, None, None)
    /\ n_steps = 0
    /\ visited = {}
    /\ new_cube = None
    /\ goal = None
    /\ start = None
    /\ q = <<>>
    /\ srcq = <<>>
    /\ dstq = <<>>
    /\ goal_set = {}
    /\ counter = 0
    /\ result = None
    /\ err = ""

\* the move indices a caller hands to transform in the transform walk: the
\* six valid ones and indices on either side of the range
TransformArgs == {-7, -1} \cup (0 .. 6)

\* cube = cube.transform(num), with any index
TransformCall ==
    /\ pc = "main"
    /\ print_history(cube) < MaxDepth
    /\ \E num \in TransformArgs :
         IF TransformRaises(num)
         THEN /\ err' = "IndexError"
              /\ pc' = "raised"
              /\ UNCHANGED cube
         ELSE /\ cube' = transform(cube, num)
              /\ UNCHANGED <<pc, err>>
    /\ UNCHANGED <<projection, n_steps, visited, new_cube, goal, start,
                   q, srcq, dstq, goal_set, counter, result>>

\* cube = cube.transform(t): one move of a known scramble sequence
Scramble ==
    /\ pc = "main"
    /\ result = None
    /\ print_history(cube) < MaxScramble
    /\ \E t \in 0 .. (Len(transformations) - 1) : cube' = transform(cube, t)
    /\ UNCHANGED <<projection, pc, n_steps, visited, new_cube, goal, start,
                   q, srcq, dstq, goal_set, counter, result, err>>

SpecTransform == Init /\ [][TransformCall]_vars

-----------------------------------------------------------------------------
(* randomize(cube, n_steps)                                                *)

\* start = randomize(Rubiks2x2(), N): visited = set([cube])
RandomizeCall ==
    /\ pc = "main"
    /\ cube.parent = None
    /\ result = None
    /\ \E n \in 0 .. MaxSteps : n_steps' = n
    /\ visited' = SetAdd({}, cube)
    /\ pc' = "randomize"
    /\ UNCHANGED <<projection, cube, new_cube, goal, start, q, srcq, dstq,
                   goal_set, counter, result, err>>

\* one pass of the while loop: draw t, build the candidate, accept it only if
\* it is not in visited
RandomizeStep ==
    /\ pc = "randomize"
    /\ n_steps > 0
    /\ \E t \in 0 .. (Len(transformations) - 1) :
         LET c == transform(cube, t)
         IN  /\ new_cube' = <<c>>
             /\ IF ~ SetHas(visited, c)
                THEN /\ cube' = c
                     /\ n_steps' = n_steps - 1
                     /\ visited' = SetAdd(visited, c)
                ELSE UNCHANGED <<cube, n_steps, visited>>
    /\ UNCHANGED <<projection, pc, goal, start, q, srcq, dstq, goal_set,
                   counter, result, err>>

\* a pass of the while loop in which t is drawn, as new_cube shows it
RandomizeDraw(t) ==
    /\ pc = "randomize"
    /\ n_steps > 0
    /\ new_cube' = <<transform(cube, t)>>

\* the loop test fails: return cube
RandomizeReturn ==
    /\ pc = "randomize"
    /\ ~ (n_steps > 0)
    /\ result' = <<cube>>
    /\ pc' = "main"
    /\ UNCHANGED <<projection, cube, n_steps, visited, new_cube, goal, start,
                   q, srcq, dstq, goal_set, counter, err>>

SpecRandomize ==
    Init /\ [][RandomizeCall \/ RandomizeStep \/ RandomizeReturn]_vars

\* randomize runs in one thread, so a return that is due happens, and the
\* random draw is fair: a move whose draw would give a new candidate is not
\* passed over for ever
SpecRandomizeFair ==
    /\ SpecRandomize
    /\ WF_vars(RandomizeReturn)
    /\ \A t \in 0 .. (Len(transformations) - 1) :
         WF_new_cube(RandomizeDraw(t))

-----------------------------------------------------------------------------
(* The searches.                                                           *)

\* the goal arguments a caller passes: None (the default) or a configuration
GoalArgs == {None, <<transform(Rubiks2x2(SolvedFaces, None, None), 2)>>}

\* if goal is None: goal = Rubiks2x2()
GoalOf(g) == IF g = None THEN Rubiks2x2(SolvedFaces, None, None) ELSE g[1]

\* the loop over the moves stopping one short: range(n - 1)
Children_one_short(latest, n) ==
    [t \in 1 .. (n - 1) |-> transform(latest, t - 1)]

\* the children transform(latest, 0), ..., transform(latest, n - 1), in order
Children(latest, n) == [t \in 1 .. n |-> transform(latest, t - 1)]

Min(S) == CHOOSE x \in S : \A y \in S : x <= y

\* the search is handed the caller's configuration itself
StartCopy_same_object(c) == c

\* start = Rubiks2x2(cube.faces): parent and parent_move take their defaults
StartCopy(c) == Rubiks2x2(c.faces, None, None)

\* solve: the lines before the loop
SolveCall ==
    /\ pc = "main"
    /\ print_history(cube) <= MaxSolveScramble
    /\ \E g \in GoalArgs : goal' = <<GoalOf(g)>>
    /\ start' = <<StartCopy(cube)>>
    /\ q' = <<StartCopy(cube)>>
    /\ counter' = 0
    /\ pc' = "solve"
    /\ UNCHANGED <<projection, cube, n_steps, visited, new_cube, srcq, dstq,
                   goal_set, result, err>>

\* solve: the loop test and one pass of the loop body
SolveLoop ==
    /\ pc = "solve"
    /\ IF q = <<>>
       THEN /\ result' = None
            /\ pc' = "solve_done"
            /\ UNCHANGED <<q, counter>>
       ELSE LET N      == Len(transformations)
                latest == Head(q)
                kids   == Children(latest, N)
                hits   == {t \in DOMAIN kids : Eq(kids[t], goal[1])}
            IN  /\ counter' = counter + 1
                /\ IF hits # {}
                   THEN /\ result' = <<kids[Min(hits)]>>
                        /\ q' = Tail(q) \o SubSeq(kids, 1, Min(hits) - 1)
                        /\ pc' = "solve_done"
                   ELSE /\ q' = Tail(q) \o kids
                        /\ UNCHANGED <<result, pc>>
    /\ UNCHANGED <<projection, cube, n_steps, visited, new_cube, goal, start,
                   srcq, dstq, goal_set, err>>

SpecSolve == Init /\ [][Scramble \/ SolveCall \/ SolveLoop]_vars

\* the goal arguments handed to solve_2way: those of GoalArgs and a
\* configuration two moves from the solved one
GoalArgs2way ==
    GoalArgs \cup
    {<<transform(transform(Rubiks2x2(SolvedFaces, None, None), 2), 0)>>}

\* solve_2way: the lines before the loop
Solve2wayCall ==
    /\ pc = "main"
    /\ print_history(cube) <= Max2wayScramble
    /\ \E g \in GoalArgs2way :
         LET end == Rubiks2x2(GoalOf(g).faces, None, None)
         IN  /\ goal' = <<GoalOf(g)>>
             /\ dstq' = <<end>>
             /\ goal_set' = DictSet({}, end, end)
    /\ start' = <<StartCopy(cube)>>
    /\ srcq' = <<StartCopy(cube)>>
    /\ counter' = 0
    /\ pc' = "2way_dst"
    /\ UNCHANGED <<projection, cube, n_steps, visited, new_cube, q, result, err>>

\* the first child of every goal-side node left out of goal_set
RECURSIVE PutAll_but_first(_, _, _)
PutAll_but_first(D, kids, n) ==
    IF n <= 1 THEN D
    ELSE DictSet(PutAll_but_first(D, kids, n - 1), kids[n], kids[n])

\* goal_set after goal_set[kids[t]] = kids[t] for t = 1 .. n in order
RECURSIVE PutAll(_, _, _)
PutAll(D, kids, n) ==
    IF n = 0 THEN D ELSE DictSet(PutAll(D, kids, n - 1), kids[n], kids[n])

\* solve_2way: the loop test and the goal-side half of the loop body
Solve2wayDst ==
    /\ pc = "2way_dst"
    /\ IF srcq = <<>>
       THEN /\ result' = None
            /\ pc' = "2way_done"
            /\ UNCHANGED <<dstq, goal_set, counter>>
       ELSE LET N          == Len(transformations)
                latest_dst == Head(dstq)
                kids       == Children(latest_dst, N)
            IN  /\ counter' = counter + 1
                /\ goal_set' = PutAll(goal_set, kids, Len(kids))
                /\ dstq' = Tail(dstq) \o kids
                /\ pc' = "2way_src"
                /\ UNCHANGED result
    /\ UNCHANGED <<projection, cube, n_steps, visited, new_cube, goal, start,
                   q, srcq, err>>

\* the inner loop applying the goal-side moves themselves, not their inverses
RECURSIVE Extend_no_inverse(_, _)
Extend_no_inverse(new_src, remainder) ==
    IF remainder.parent = None THEN new_src
    ELSE Extend_no_inverse(transform(new_src, remainder.parent_move[1]),
                           remainder.parent[1])

\* the inner loop left out: the meeting configuration is returned as it is
Extend_no_walk(new_src, remainder) == new_src

\* the inner while loop of solve_2way: extend new_src by the inverse of each
\* goal-side move while remainder has a parent
RECURSIVE Extend(_, _)
Extend(new_src, remainder) ==
    IF remainder.parent = None THEN new_src
    ELSE Extend(transform(new_src,
                          Len(transformations) - remainder.parent_move[1] - 1),
                remainder.parent[1])

\* solve_2way: the start-side half of the loop body
Solve2waySrc ==
    /\ pc = "2way_src"
    /\ LET N          == Len(transformations)
           latest_src == Head(srcq)
           kids       == Children(latest_src, N)
           hits       == {t \in DOMAIN kids : DictHas(goal_set, kids[t])}
       IN  IF hits # {}
           THEN LET new_src == kids[Min(hits)]
                IN  /\ result' = <<Extend(new_src, DictGet(goal_set, new_src))>>
                    /\ srcq' = Tail(srcq) \o SubSeq(kids, 1, Min(hits) - 1)
                    /\ pc' = "2way_done"
           ELSE /\ srcq' = Tail(srcq) \o kids
                /\ pc' = "2way_dst"
                /\ UNCHANGED result
    /\ UNCHANGED <<projection, cube, n_steps, visited, new_cube, goal, start,
                   q, dstq, goal_set, counter, err>>

Spec2way ==
    Init /\ [][Scramble \/ Solve2wayCall \/ Solve2wayDst \/ Solve2waySrc]_vars

-----------------------------------------------------------------------------
(* solve_pq and the priority queue (queue.PriorityQueue keeps a heapq list *)
(* of PriorityItem objects; positions below are Python's, from 0).         *)

PriorityItem(item, g) == [item |-> item, goal |-> g, priority |-> dist(item, g)]

\* PriorityItem.__lt__
Lt(self, other) == self.priority < other.priority

\* heapq._siftdown(heap, startpos, pos) with newitem = heap[pos] taken out
RECURSIVE SiftDown(_, _, _, _)
SiftDown(heap, startpos, pos, newitem) ==
    IF pos > startpos
    THEN LET parentpos == (pos - 1) \div 2
             parent    == heap[parentpos + 1]
         IN  IF Lt(newitem, parent)
             THEN SiftDown([heap EXCEPT ![pos + 1] = parent],
                           startpos, parentpos, newitem)
             ELSE [heap EXCEPT ![pos + 1] = newitem]
    ELSE [heap EXCEPT ![pos + 1] = newitem]

\* the while loop of heapq._siftup(heap, startpos): bubble the smaller child
\* up until a leaf is reached, then sift newitem down from there
RECURSIVE SiftUp(_, _, _, _)
SiftUp(heap, startpos, pos, newitem) ==
    LET endpos   == Len(heap)
        childpos == 2 * pos + 1
        rightpos == childpos + 1
        pick     == IF rightpos < endpos
                       /\ ~ Lt(heap[childpos + 1], heap[rightpos + 1])
                    THEN rightpos ELSE childpos
    IN  IF childpos < endpos
        THEN SiftUp([heap EXCEPT ![pos + 1] = heap[pick + 1]],
                    startpos, pick, newitem)
        ELSE SiftDown(heap, startpos, pos, newitem)

\* q.put(x): heapq.heappush
HeapPush(heap, x) == SiftDown(Append(heap, x), 0, Len(heap), x)

\* q.get(): heapq.heappop; the item returned and the heap left
HeapPop(heap) ==
    LET lastelt == heap[Len(heap)]
        rest    == SubSeq(heap, 1, Len(heap) - 1)
    IN  IF rest # <<>>
        THEN [item |-> rest[1], heap |-> SiftUp(rest, 0, 0, lastelt)]
        ELSE [item |-> lastelt, heap |-> rest]

\* solve_pq(cube): the lines before the loop, goal left at its default
SolvePQCall ==
    /\ pc = "main"
    /\ print_history(cube) <= MaxPQScramble
    /\ goal' = <<GoalOf(None)>>
    /\ q' = HeapPush(<<>>, PriorityItem(StartCopy(cube), GoalOf(None)))
    /\ start' = <<StartCopy(cube)>>
    /\ visited' = SetAdd({}, StartCopy(cube))
    /\ counter' = 0
    /\ pc' = "pq"
    /\ UNCHANGED <<projection, cube, n_steps, new_cube, srcq, dstq, goal_set,
                   result, err>>

\* the queue and the visited set after the children kids[1..n] went through
\* "if new_cube not in visited: q.put(...); visited.add(new_cube)"
RECURSIVE PQPutAll(_, _, _, _)
PQPutAll(qv, kids, n, g) ==
    IF n = 0 THEN qv
    ELSE LET prev == PQPutAll(qv, kids, n - 1, g)
         IN  IF SetHas(prev.visited, kids[n]) THEN prev
             ELSE [q       |-> HeapPush(prev.q, PriorityItem(kids[n], g)),
                   visited |-> SetAdd(prev.visited, kids[n])]

\* solve_pq: the loop test and one pass of the loop body
SolvePQLoop ==
    /\ pc = "pq"
    /\ counter < MaxPQTicks
    /\ IF q = <<>>
       THEN /\ result' = None
            /\ pc' = "pq_done"
            /\ UNCHANGED <<q, visited, counter>>
       ELSE LET N      == Len(transformations)
                popped == HeapPop(q)
                latest == popped.item.item
                kids   == Children(latest, N)
                hits   == {t \in DOMAIN kids : Eq(kids[t], goal[1])}
                upto   == IF hits # {} THEN Min(hits) - 1 ELSE Len(kids)
                qv     == PQPutAll([q |-> popped.heap, visited |-> visited],
                                   kids, upto, goal[1])
            IN  /\ counter' = counter + 1
                /\ q' = qv.q
                /\ visited' = qv.visited
                /\ IF hits # {}
                   THEN /\ result' = <<kids[Min(hits)]>>
                        /\ pc' = "pq_done"
                   ELSE UNCHANGED <<result, pc>>
    /\ UNCHANGED <<projection, cube, n_steps, new_cube, goal, start,
                   srcq, dstq, goal_set, err>>

SpecPQ == Init /\ [][Scramble \/ SolvePQCall \/ SolvePQLoop]_vars

\* a step of SolvePQLoop as pc and counter show it: a pass ticks the counter,
\* the exit with an empty queue ends the search
PQPass ==
    /\ pc = "pq"
    /\ counter < MaxPQTicks
    /\ \/ counter' = counter + 1 /\ pc' \in {"pq", "pq_done"}
       \/ counter' = counter /\ pc' = "pq_done"

\* solve_pq runs in one thread: while the loop can take a pass, it takes it
SpecPQFair == SpecPQ /\ WF_<<pc, counter>>(PQPass)

\* the three searches after a known scramble
SpecSearch ==
    Init /\ [][Scramble \/ SolveCall \/ SolveLoop
                 \/ Solve2wayCall \/ Solve2wayDst \/ Solve2waySrc
                 \/ SolvePQCall \/ SolvePQLoop]_vars

\* the three searches after randomize
SpecRandomSearch ==
    Init /\ [][RandomizeCall \/ RandomizeStep \/ RandomizeReturn
                 \/ SolveCall \/ SolveLoop
                 \/ Solve2wayCall \/ Solve2wayDst \/ Solve2waySrc
                 \/ SolvePQCall \/ SolvePQLoop]_vars

Next ==
    \/ TransformCall
    \/ Scramble
    \/ RandomizeCall \/ RandomizeStep \/ RandomizeReturn
    \/ SolveCall \/ SolveLoop
    \/ Solve2wayCall \/ Solve2wayDst \/ Solve2waySrc
    \/ SolvePQCall \/ SolvePQLoop

Spec == Init /\ [][Next]_vars

-----------------------------------------------------------------------------
(* Helpers of the properties.                                              *)

\* the faces after the moves of a sequence are applied in order
RECURSIVE Replay(_, _)
Replay(faces, moves) ==
    IF moves = <<>> THEN faces
    ELSE Replay(MatMul(ListIndex(Head(moves), Len(transformations)), faces),
                Tail(moves))

\* a configuration and its ancestors, the root first
RECURSIVE Ancestry(_)
Ancestry(c) ==
    IF c.parent = None THEN <<c>> ELSE Append(Ancestry(c.parent[1]), c)

ValidMove(m) == m \in 0 .. (Len(transformations) - 1)

\* every configuration of the ancestry was produced by one of the six moves
ValidAncestry(c) ==
    \A i \in 2 .. Len(Ancestry(c)) : ValidMove(Ancestry(c)[i].parent_move[1])

ColourCount(faces, k) == Cardinality({i \in Idx : faces[i] = k})

-----------------------------------------------------------------------------
(* Properties of the transform table, under SpecTransform.                 *)

\* C1: whenever move i (0..5) and then move 5-i were applied to a
\* configuration c, the result has exactly the 24 facelets of c.
InverseIdentity ==
    (/\ cube.parent # None
     /\ cube.parent[1].parent # None
     /\ ValidMove(cube.parent_move[1])
     /\ cube.parent_move[1] = 5 - cube.parent[1].parent_move[1])
    => \A i \in Idx : cube.faces[i] = cube.parent[1].parent[1].faces[i]

\* C1 witness: a move and its partner 5-i were applied to a scrambled
\* configuration
InverseIdentityWitness ==
    /\ print_history(cube) >= 4
    /\ ValidAncestry(cube)
    /\ cube.parent_move[1] = 5 - cube.parent[1].parent_move[1]
    /\ cube.parent[1].parent[1].faces # SolvedFaces
    /\ cube.parent[1].faces # cube.faces

\* C2: in every configuration reached by the six moves each colour 0..5
\* occurs exactly 4 times, and each operator has exactly one 1 in every row
\* and every column (it is a bijection on the 24 indices).
PermutationInvariant ==
    /\ \A k \in 0 .. 5 : ColourCount(cube.faces, k) = 4
    /\ \A t \in DOMAIN transformations : \A i \in Idx :
         /\ Cardinality({j \in Idx : transformations[t][i][j] = 1}) = 1
         /\ Cardinality({j \in Idx : transformations[t][j][i] = 1}) = 1
         /\ \A j \in Idx : transformations[t][i][j] \in {0, 1}

\* C2 witness: a configuration four moves from the solved one in which no
\* face is of one colour
PermutationInvariantWitness ==
    /\ print_history(cube) >= 4
    /\ ValidAncestry(cube)
    /\ \A f \in 0 .. 5 : \E i \in 0 .. 3 : cube.faces[4 * f + i] # f

\* C9 as claimed: transform never returns a Configuration for a move index
\* outside [0,6).
TransformFailsFast ==
    cube.parent_move # None => ValidMove(cube.parent_move[1])

-----------------------------------------------------------------------------
(* Properties of randomize, under SpecRandomize.                           *)

\* no two configurations of the ancestry have the same 24 facelets
AncestryDistinct(c) ==
    \A i, j \in 1 .. Len(Ancestry(c)) :
        i # j => Ancestry(c)[i].faces # Ancestry(c)[j].faces

\* what one pass of the loop of randomize may do
RandomizeStepRule ==
    (pc = "randomize" /\ pc' = "randomize") =>
        LET cand == new_cube'[1]
            seen == \E i \in 1 .. Len(Ancestry(cube)) :
                        Ancestry(cube)[i].faces = cand.faces
        IN  /\ cand.parent = <<cube>>
            /\ IF seen
               THEN cube' = cube /\ n_steps' = n_steps /\ visited' = visited
               ELSE cube' = cand /\ n_steps' = n_steps - 1

\* what the return of randomize may do
RandomizeReturnRule ==
    (pc = "randomize" /\ pc' = "main") =>
        n_steps = 0 /\ result' = <<cube>> /\ cube' = cube

\* C8: during randomize the start and the accepted move results are pairwise
\* unequal and are exactly the members of visited; a candidate equal to one of
\* them is rejected and leaves n_steps alone, any other candidate is accepted
\* and takes one step off, so the ancestry returned at n_steps = 0 holds
\* n_steps + 1 distinct configurations.
RandomizerNoRevisit ==
    /\ [](/\ AncestryDistinct(cube)
          /\ pc = "randomize" =>
               Cardinality(visited) = print_history(cube) + 1)
    /\ [][RandomizeStepRule /\ RandomizeReturnRule]_vars

\* C8 witness: after three accepted moves the next candidate has the facelets
\* of the start and was rejected with steps left
RandomizerNoRevisitWitness ==
    /\ pc = "randomize"
    /\ n_steps >= 1
    /\ print_history(cube) = 3
    /\ new_cube # None
    /\ new_cube[1].parent = <<cube>>
    /\ new_cube[1].faces = SolvedFaces

\* the configurations randomize holds: the ancestry of cube, the candidate
\* and the keys of visited
Known ==
    {Ancestry(cube)[i] : i \in 1 .. Len(Ancestry(cube))}
        \cup (IF new_cube = None THEN {} ELSE {new_cube[1]})
        \cup {e.key : e \in visited}

\* C10: two configurations compare equal iff their 24 facelets are equal,
\* whatever their parent and parent_move; equal configurations have the same
\* hash; and the set visited treats them as one key (a configuration is found
\* in it iff one with the same facelets was added, and no two of its keys
\* have the same facelets).
EqualityHashFacesOnly ==
    /\ \A a, b \in Known :
         /\ Eq(a, b) <=> a.faces = b.faces
         /\ a.faces = b.faces => Hash(a) = Hash(b)
    /\ \A a \in Known :
         SetHas(visited, a) <=> \E e \in visited : e.key.faces = a.faces
    /\ \A e1, e2 \in visited : e1.key.faces = e2.key.faces => e1 = e2
    /\ \A e \in visited : e.hash = Hash(e.key)

\* C10 witness: the candidate has the facelets of a member of visited that
\* was reached by another move from another parent
EqualityHashFacesOnlyWitness ==
    /\ new_cube # None
    /\ \E e \in visited :
         /\ e.key.faces = new_cube[1].faces
         /\ e.key.parent # None
         /\ e.key.parent # new_cube[1].parent
         /\ e.key.parent_move # new_cube[1].parent_move

-----------------------------------------------------------------------------
(* Properties of the searches.                                             *)

\* the move sequences of length at most n
MoveSeqs(n) ==
    UNION {[1 .. m -> 0 .. (Len(transformations) - 1)] : m \in 0 .. n}

\* C3 (under Spec2way): when solve_2way returns, the moves of the returned
\* ancestry are valid move indices, the ancestry starts at the start's
\* facelets, and replaying the moves in order from the original start's
\* facelets yields exactly the goal's facelets.
BidirectionalCorrectness ==
    pc = "2way_done" =>
        /\ result # None
        /\ ValidAncestry(result[1])
        /\ Root(result[1]).faces = cube.faces
        /\ Replay(cube.faces, Moves(result[1])) = goal[1].faces

\* C3 witness: a return after the first pass of the loop with a path of four
\* moves or more, so at least two of them are inverted goal-side moves
BidirectionalCorrectnessWitness ==
    /\ pc = "2way_done"
    /\ result # None
    /\ counter >= 2
    /\ counter <= 7
    /\ print_history(result[1]) >= 4
    /\ cube.faces # goal[1].faces

\* C4 as claimed (under SpecSolve): for a start obtained from the solved goal
\* by k moves, solve returns a path of at most k moves and no shorter move
\* sequence leads from the start to the goal.
ForwardBFSShortest ==
    (pc = "solve_done" /\ goal[1].faces = SolvedFaces) =>
        /\ result # None
        /\ print_history(result[1]) <= print_history(cube)
        /\ \A m \in MoveSeqs(print_history(result[1]) - 1) :
               Replay(cube.faces, m) # goal[1].faces

\* C5 as claimed (under Spec2way): for a start obtained from the solved goal
\* by k moves, solve_2way returns a path of at most k moves.
BidirectionalWithinScramble ==
    (pc = "2way_done" /\ goal[1].faces = SolvedFaces) =>
        /\ result # None
        /\ print_history(result[1]) <= print_history(cube)

\* C7 (under Spec2way): from the solved cube scrambled by move 0 and then
\* move 1, solve_2way to the solved goal returns a path of exactly 2 moves
\* whose replay from the scrambled cube gives the solved facelets.
ConcreteScenario ==
    (/\ pc = "2way_done"
     /\ Moves(cube) = <<0, 1>>
     /\ Root(cube).faces = SolvedFaces
     /\ goal[1].faces = SolvedFaces) =>
        /\ result # None
        /\ print_history(result[1]) = 2
        /\ Replay(cube.faces, Moves(result[1])) = SolvedFaces

\* C7 witness: solve_2way has returned for that scramble and the solved goal
ConcreteScenarioWitness ==
    /\ pc = "2way_done"
    /\ Moves(cube) = <<0, 1>>
    /\ cube.faces # SolvedFaces
    /\ goal[1].faces = SolvedFaces
    /\ result # None

\* C6 as claimed (under SpecSearch): a search from the solved configuration
\* to the solved goal returns a configuration with no parent moves.
SolvedFixedPoint ==
    (/\ pc \in {"solve_done", "2way_done", "pq_done"}
     /\ cube.faces = SolvedFaces
     /\ goal[1].faces = SolvedFaces) =>
        /\ result # None
        /\ print_history(result[1]) = 0

-----------------------------------------------------------------------------
(* Properties of the frontiers of solve and solve_2way, under SpecSearch.  *)

\* C11: in solve and solve_2way the frontier never empties.  At every test
\* of the loop condition each queue is non-empty: after counter completed
\* passes without success it holds exactly 1 + 5 * counter entries (in the
\* middle of a pass of solve_2way dstq is one pass ahead of srcq), and no
\* search ends without a result.
FrontierNeverEmpty ==
    /\ pc = "solve" => /\ Len(q) = 1 + 5 * counter
                       /\ q # <<>>
    /\ pc = "2way_dst" => /\ Len(srcq) = 1 + 5 * counter
                          /\ Len(dstq) = 1 + 5 * counter
                          /\ srcq # <<>> /\ dstq # <<>>
    /\ pc = "2way_src" => /\ Len(srcq) = 1 + 5 * (counter - 1)
                          /\ Len(dstq) = 1 + 5 * counter
                          /\ srcq # <<>> /\ dstq # <<>>
    /\ pc \in {"solve_done", "2way_done"} => result # None

\* C11 witness: solve_2way is at its loop test after three passes without
\* success, with sixteen entries in each queue
FrontierNeverEmptyWitness ==
    /\ pc = "2way_dst"
    /\ counter = 3
    /\ Len(srcq) = 16
    /\ Len(dstq) = 16

-----------------------------------------------------------------------------
(* Properties of the lockstep order of solve_2way, under Spec2way.         *)

\* C12 as claimed: for every start at true distance d >= 1 from the goal the
\* path solve_2way returns has exactly d moves: it reaches the goal and no
\* shorter sequence of moves does.
LockstepMinimal ==
    (/\ pc = "2way_done"
     /\ result # None
     /\ start[1].faces # goal[1].faces)
    => /\ Replay(start[1].faces, Moves(result[1])) = goal[1].faces
       /\ \A m \in MoveSeqs(print_history(result[1]) - 1) :
             Replay(start[1].faces, m) # goal[1].faces

\* the moves from the root to node n of a six-way tree numbered in FIFO
\* (breadth-first) order: the root is node 0, the children of node n are the
\* nodes 6n + 1 .. 6n + 6
RECURSIVE BFSPath(_)
BFSPath(n) ==
    IF n = 0 THEN <<>>
    ELSE Append(BFSPath((n - 1) \div 6), (n - 1) % 6)

\* the FIFO number of the node a sequence of moves leads to
RECURSIVE PathIndex(_)
PathIndex(moves) ==
    IF moves = <<>> THEN 0
    ELSE 6 * PathIndex(SubSeq(moves, 1, Len(moves) - 1))
         + moves[Len(moves)] + 1

\* C13: in every pass the goal side dequeues one node and puts its six
\* children into goal_set and dstq before the start side dequeues and tests
\* its node.  When the start side begins its i-th expansion (i = counter) the
\* goal side has dequeued i nodes and the start side i - 1: dstq holds the
\* goal-side nodes i .. 6i in FIFO order, each of them and each of their
\* ancestors (the goal and the nodes before i) is a key of goal_set, and
\* goal_set holds nothing generated later.  At the loop test both sides have
\* dequeued exactly counter nodes.
LockstepOrder ==
    /\ pc = "2way_src" =>
         /\ Len(dstq) = 1 + 5 * counter
         /\ Moves(Head(srcq)) = BFSPath(counter - 1)
         /\ \A i \in 1 .. Len(dstq) :
              LET A == Ancestry(dstq[i])
              IN  /\ Moves(dstq[i]) = BFSPath(counter + i - 1)
                  /\ A[1].faces = goal[1].faces
                  /\ \A j \in 1 .. Len(A) : DictHas(goal_set, A[j])
         /\ DictHas(goal_set, goal[1])
         /\ \A e \in goal_set :
              /\ PathIndex(Moves(e.value)) <= 6 * counter
              /\ Root(e.value).faces = goal[1].faces
    /\ pc = "2way_dst" =>
         /\ Moves(Head(dstq)) = BFSPath(counter)
         /\ Moves(Head(srcq)) = BFSPath(counter)

\* C13 witness: the start side is about to run its third expansion, the
\* goal side has generated the children of three nodes
LockstepOrderWitness ==
    /\ pc = "2way_src"
    /\ counter = 3
    /\ Len(dstq) = 16
    /\ Cardinality(goal_set) > 12
    /\ Moves(Head(srcq)) = <<1>>
    /\ Moves(Head(dstq)) = <<2>>

-----------------------------------------------------------------------------
(* Properties of solve_pq, under SpecPQ.                                   *)

\* what holds of the queue and the visited set of solve_pq in every state
VisitedRule ==
    pc \in {"pq", "pq_done"} =>
        /\ SetHas(visited, start[1])
        /\ \A i \in 1 .. Len(q) : SetHas(visited, q[i].item)
        /\ \A i, j \in 1 .. Len(q) :
             i # j => q[i].item.faces # q[j].item.faces
        /\ \A e1, e2 \in visited :
             e1.key.faces = e2.key.faces => e1 = e2
        /\ Cardinality(visited) = Len(q) + counter

\* what one pass of the loop of solve_pq does to the expanded configuration
ExpandOnceRule ==
    (pc = "pq" /\ q # <<>> /\ counter' = counter + 1) =>
        /\ SetHas(visited', q[1].item)
        /\ \A i \in 1 .. Len(q') : q'[i].item.faces # q[1].item.faces
        /\ \A e \in visited : e \in visited'

\* C14: solve_pq marks a configuration visited when it is first put on the
\* queue (the start included) and never puts it on again.  Every
\* configuration in the priority queue is in visited, no two entries are
\* equal, the configurations ever put on the queue (those waiting and the
\* counter expanded ones) are as many as the visited ones, and a
\* configuration taken off the queue is not put back, so none is expanded
\* more than once.
VisitedOnEnqueue == [] VisitedRule /\ [][ExpandOnceRule]_vars

\* C14 witness: after three passes without success a child equal to a
\* visited configuration has been dropped (fewer than 1 + 6 * counter
\* configurations were put on the queue)
VisitedOnEnqueueWitness ==
    /\ pc = "pq"
    /\ counter >= 3
    /\ Len(q) >= 10
    /\ Cardinality(visited) < 1 + 6 * counter

\* what solve_pq has returned when it is over
PQReturnRule ==
    pc = "pq_done" =>
        /\ result # None
        /\ Eq(result[1], goal[1])
        /\ ValidAncestry(result[1])
        /\ Root(result[1]) = start[1]
        /\ Replay(start[1].faces, Moves(result[1])) = goal[1].faces

\* one pass of the loop of solve_pq takes one configuration off the frontier
\* for good: the popped item's configuration stays in visited and is not
\* queued again, every configuration queued by the pass is new to visited,
\* and the number of configurations that are in visited and no longer queued
\* grows by exactly one
PQVariantRule ==
    (pc = "pq" /\ counter' = counter + 1) =>
        /\ SetHas(visited', q[1].item)
        /\ \A i \in DOMAIN q' : ~ Eq(q'[i].item, q[1].item)
        /\ \A i \in DOMAIN q' :
               SetHas(visited, q'[i].item) => \E j \in DOMAIN q : q'[i] = q[j]
        /\ Cardinality(visited') - Len(q') = Cardinality(visited) - Len(q) + 1

\* the pass of the loop of solve_pq seen from the loop test, had the queue
\* handed out its i-th item: whichever item of least priority is popped,
\* the pass takes that configuration off the frontier for good, and if it
\* returns it returns a configuration equal to the goal whose ancestry
\* replays from the start to the goal
PQAnyTieRule ==
    (pc = "pq" /\ q # <<>>) =>
        \A i \in DOMAIN q :
            (\A j \in DOMAIN q : ~ Lt(q[j], q[i])) =>
                LET latest == q[i].item
                    rest   == SubSeq(q, 1, i - 1) \o SubSeq(q, i + 1, Len(q))
                    kids   == Children(latest, Len(transformations))
                    hits   == {t \in DOMAIN kids : Eq(kids[t], goal[1])}
                    upto   == IF hits # {} THEN Min(hits) - 1 ELSE Len(kids)
                    qv     == PQPutAll([q |-> rest, visited |-> visited],
                                       kids, upto, goal[1])
                IN  /\ SetHas(qv.visited, latest)
                    /\ \A j \in DOMAIN qv.q : ~ Eq(qv.q[j].item, latest)
                    /\ Cardinality(qv.visited) - Len(qv.q)
                           = Cardinality(visited) - Len(q) + 1
                    /\ hits # {} =>
                           LET found == kids[Min(hits)]
                           IN  /\ Eq(found, goal[1])
                               /\ ValidAncestry(found)
                               /\ Root(found) = start[1]
                               /\ Replay(start[1].faces, Moves(found))
                                      = goal[1].faces

-----------------------------------------------------------------------------
(* Termination of randomize, under SpecRandomizeFair.                      *)

\* the moves whose result is not in visited
FreshMoves ==
    {t \in 0 .. (Len(transformations) - 1) :
        ~ SetHas(visited, transform(cube, t))}

\* C16: randomize from the solved configuration with n_steps <= MaxSteps
\* terminates under a fair draw of the moves.  Whenever steps remain at
\* least one of the six moves leads to a configuration not in visited, so
\* the retry loop is never stuck, and every call that has begun returns its
\* cube with no steps left.
RandomizeTerminates ==
    /\ [] ((pc = "randomize" /\ n_steps > 0) => FreshMoves # {})
    /\ (pc = "randomize")
         ~> (pc = "main" /\ result = <<cube>> /\ n_steps = 0)

\* C16 witness: with steps remaining after three accepted moves, two of the
\* six moves lead to visited configurations (the parent and the start, at
\* the end of a cycle of four) and such a candidate has just been refused
RandomizeTerminatesWitness ==
    /\ pc = "randomize"
    /\ n_steps >= 1
    /\ print_history(cube) >= 3
    /\ Cardinality(FreshMoves) = 4
    /\ new_cube # None
    /\ new_cube[1].parent = <<cube>>
    /\ SetHas(visited, new_cube[1])

-----------------------------------------------------------------------------
(* The root of a search, under SpecRandomSearch.                           *)

\* the search is running or over
Searching ==
    pc \in {"solve", "solve_done", "2way_dst", "2way_src", "2way_done",
            "pq", "pq_done"}

\* C17: every search seeds its root from the start's facelets with parent
\* and parent_move absent, whatever ancestry the configuration handed to it
\* has.  The root has the facelets of the caller's cube and no parent; the
\* ancestry of the returned configuration ends at that root, its moves
\* replayed from the cube's facelets give the goal's, and the step count of
\* print_history is the number of configurations after the root, none of
\* them made by randomize (for solve it is the depth of the expanded node
\* plus one, for solve_2way at most that plus the depth of the goal side).
SearchRootFresh ==
    /\ Searching =>
         /\ start[1].faces = cube.faces
         /\ start[1].parent = None
         /\ start[1].parent_move = None
    /\ (pc \in {"solve_done", "2way_done", "pq_done"} /\ result # None) =>
         LET r == result[1]
             d == Len(BFSPath(counter - 1)) + 1
         IN  /\ Root(r) = start[1]
             /\ print_history(r) = Len(Ancestry(r)) - 1
             /\ Replay(cube.faces, Moves(r)) = goal[1].faces
             /\ pc = "solve_done" => print_history(r) = d
             /\ pc = "2way_done" =>
                  /\ print_history(r) >= d
                  /\ print_history(r) <= d + Len(BFSPath(6 * counter))

\* C17 witness: solve_2way has returned a path of two moves or more for a
\* cube that randomize made with two moves
SearchRootFreshWitness ==
    /\ pc = "2way_done"
    /\ n_steps = 0
    /\ Cardinality(visited) = 3
    /\ print_history(cube) = 2
    /\ cube.parent # None
    /\ result # None
    /\ print_history(result[1]) >= 2
    /\ Root(result[1]).parent = None
    /\ Root(result[1]) # Root(cube)

-----------------------------------------------------------------------------
(* The values of goal_set, under Spec2way.                                 *)

Max(S) == CHOOSE x \in S : \A y \in S : x >= y

\* what holds of the values of goal_set in every state of solve_2way: the
\* value of an entry has the facelets of its key, and no goal-side node
\* waiting in dstq with those facelets was generated after it
StoredLatestRule ==
    pc \in {"2way_dst", "2way_src", "2way_done"} =>
        /\ \A e \in goal_set : e.value.faces = e.key.faces
        /\ \A i \in 1 .. Len(dstq) :
             PathIndex(Moves(dstq[i]))
                 <= PathIndex(Moves(DictGet(goal_set, dstq[i])))

\* what the goal-side half of a pass does to goal_set: each of the six new
\* nodes is from then on the value stored for its facelets (the last of
\* them, where two are alike), every other entry keeps its value, no key is
\* lost and no stored ancestry gets shorter
ReplaceRule ==
    (pc = "2way_dst" /\ pc' = "2way_src") =>
        LET kids     == SubSeq(dstq', Len(dstq') - 5, Len(dstq'))
            last(x)  == Max({u \in 1 .. 6 : kids[u].faces = x.faces})
            fresh(x) == \E u \in 1 .. 6 : kids[u].faces = x.faces
        IN  /\ \A t \in 1 .. 6 :
                 /\ kids[t].parent = <<Head(dstq)>>
                 /\ DictGet(goal_set', kids[t]) = kids[last(kids[t])]
            /\ \A e \in goal_set :
                 /\ DictHas(goal_set', e.key)
                 /\ DictGet(goal_set', e.key) =
                        IF fresh(e.key) THEN kids[last(e.key)] ELSE e.value
                 /\ print_history(DictGet(goal_set', e.key))
                        >= print_history(e.value)

\* C18: in solve_2way, when the goal side generates a configuration whose
\* facelets already have an entry in goal_set (the goal included), the
\* stored value is replaced by the new node.  The ancestry stored for a
\* configuration is always that of the most recently generated goal-side
\* node with those facelets, and its length never decreases over a run.
StoredAncestryLatest == [] StoredLatestRule /\ [][ReplaceRule]_vars

\* C18 witness: the entry of the goal itself holds a node two moves deep, so
\* a stored ancestry is longer than the shortest distance (here 0) of its
\* configuration from the goal
StoredAncestryLatestWitness ==
    /\ pc = "2way_src"
    /\ counter >= 2
    /\ DictHas(goal_set, goal[1])
    /\ print_history(DictGet(goal_set, goal[1])) = 2
    /\ DictGet(goal_set, goal[1]).faces = goal[1].faces

-----------------------------------------------------------------------------
(* The fixed corner, under SpecTransform.                                  *)

\* the facelets of the corner no move turns
FixedFacelets == {10, 15, 23}

\* C19: none of the six operators moves the facelets 10, 15 and 23 (row and
\* column of each hold a single 1, on the diagonal), and in every
\* configuration reached from the solved one facelet 10 has colour 2,
\* facelet 15 colour 3 and facelet 23 colour 5.
FixedCorner ==
    /\ \A t \in DOMAIN transformations : \A i \in FixedFacelets :
         \A j \in Idx :
            /\ transformations[t][i][j] = (IF j = i THEN 1 ELSE 0)
            /\ transformations[t][j][i] = (IF j = i THEN 1 ELSE 0)
    /\ cube.faces[10] = 2
    /\ cube.faces[15] = 3
    /\ cube.faces[23] = 5

\* C19 witness: four moves from the solved configuration, with another
\* facelet of each of the faces 2, 3 and 5 no longer of its face's colour
FixedCornerWitness ==
    /\ print_history(cube) >= 4
    /\ ValidAncestry(cube)
    /\ cube.faces[9] # 2
    /\ cube.faces[14] # 3
    /\ cube.faces[22] # 5
    /\ cube.faces[10] = 2

====
